---- MODULE Spec2Model ----
(***************************************************************************)
(* Complete-linkage (farthest neighbour) clustering of src/src/            *)
(* mlg_clustering.c, function farthest_neighbor.  Distances are modelled   *)
(* as naturals; the half-integer guards of the source (> -0.5) are kept by *)
(* doubling both sides.                                                    *)
(***************************************************************************)
EXTENDS Integers, FiniteSets, Sequences, TLC

\* ---- bounds of the model ----
MaxN == 3
MaxDist == 1
LabelSlack == 1

VARIABLES n, dist, mlg, thresh, cluster_matrix, cluster_size, num_clusters,
          min_cluster_distance, tmp_max, closest_pair, attributed, Rout,
          pc, num_merges, stray

vars == <<n, dist, mlg, thresh, cluster_matrix, cluster_size, num_clusters,
          min_cluster_distance, tmp_max, closest_pair, attributed, Rout,
          pc, num_merges, stray>>

\* ---- helpers ----
SetMax(S) == CHOOSE x \in S : \A y \in S : y <= x

SetMin(S) == CHOOSE x \in S : \A y \in S : x <= y

Individuals == 0 .. (n - 1)

Slots == 0 .. (n - 1)

\* memset(cluster_matrix[i], -1, ...) and calloc of cluster_size
EmptyMatrix(nn) == [s \in 0 .. (nn - 1) |-> [k \in 0 .. (nn - 1) |-> -1]]

EmptySizes(nn) == [s \in 0 .. (nn - 1) |-> 0]

\* R stores the n x n matrix column-major in one vector: element (row, col)
\* is at col * n + row.  The upper triangle is mirrored; the diagonal is 0.
UpperPairs(nn) == {p \in (0 .. (nn - 1)) \X (0 .. (nn - 1)) : p[1] < p[2]}

FlatMatrix(nn, up) ==
  [x \in 0 .. (nn * nn - 1) |->
     LET row == x % nn
         col == x \div nn
     IN  IF row = col THEN 0
         ELSE IF row < col THEN up[<<row, col>>] ELSE up[<<col, row>>]]

distance_matrix(u, v) == dist[v * n + u]

\* number of leading entries of a row that are not the -1 terminator
RECURSIVE PrefixLen(_, _)
PrefixLen(row, k) ==
  IF k < n /\ row[k] # -1 THEN PrefixLen(row, k + 1) ELSE k

MembersOf(cm, s) == {cm[s][k] : k \in 0 .. (PrefixLen(cm[s], 0) - 1)}

ValidLabels == \A i \in Individuals : mlg[i] \in 1 .. n

\* ---- initial clustering (lines 116-129) ----
RECURSIVE FillFrom(_, _, _, _, _)
FillFrom(i, cm, cs, nc, lost) ==
  IF i >= n THEN [cm |-> cm, cs |-> cs, nc |-> nc, lost |-> lost]
  ELSE LET s == mlg[i] - 1
       IN  IF s \in 0 .. (n - 1)
           THEN FillFrom(i + 1,
                         [cm EXCEPT ![s][cs[s]] = i],
                         [cs EXCEPT ![s] = @ + 1],
                         IF cs[s] + 1 = 1 THEN nc + 1 ELSE nc,
                         lost)
           ELSE FillFrom(i + 1, cm, cs, nc, lost \cup {i})

\* ---- closest-pair scan (lines 149-182) ----
UpdateTmpMax(tm, cm, i, j) ==
  SetMax({tm} \cup
         {dist[k * n + l] : k \in MembersOf(cm, i), l \in MembersOf(cm, j)})

\* variant: a tie replaces the retained pair
IsCloserOrEqual(tm, mcd) == 2 * tm > -1 /\ (tm <= mcd \/ mcd < 0)

IsCloser(tm, mcd) == 2 * tm > -1 /\ (tm < mcd \/ mcd < 0)

\* the two for loops over i_cluster and j_cluster; tmp_max is set to -1 on
\* entering a row (line 151) and carried from one j_cluster to the next;
\* att collects <<i_cluster, j_cluster, tmp_max>> as tested at line 174
RECURSIVE ScanFrom(_, _, _, _, _, _, _)
ScanFrom(i, j, tm, mcd, cp, att, cm) ==
  IF i >= n
  THEN [tmp_max |-> tm, min_cluster_distance |-> mcd, closest_pair |-> cp,
        attributed |-> att]
  ELSE IF j >= n
  THEN IF i + 1 < n
       THEN ScanFrom(i + 1, i + 2, -1, mcd, cp, att, cm)
       ELSE ScanFrom(i + 1, i + 2, tm, mcd, cp, att, cm)
  ELSE LET t == UpdateTmpMax(tm, cm, i, j)
       IN  IF IsCloser(t, mcd)
           THEN ScanFrom(i, j + 1, t, t, <<i, j>>, att \cup {<<i, j, t>>}, cm)
           ELSE ScanFrom(i, j + 1, t, mcd, cp, att \cup {<<i, j, t>>}, cm)

ClosestPairScan(cm) == ScanFrom(0, 1, -1, -1, <<-1, -1>>, {}, cm)

\* ---- loop guard and threshold test (lines 137, 187) ----
\* variant: the loop stops one cluster early
LoopGuardStopsAtTwo(mcd, nc) == mcd < thresh /\ nc > 2

LoopGuard(mcd, nc) == mcd < thresh /\ nc > 1

\* variant: the threshold test is not strict
WithinThresholdInclusive(mcd) == mcd <= thresh

WithinThreshold(mcd) == mcd < thresh

\* ---- merge (lines 190-197) ----
RECURSIVE MergeFrom(_, _, _, _, _)
MergeFrom(i, cm, cs, a, b) ==
  IF i >= cs[b] THEN [cm |-> cm, cs |-> [cs EXCEPT ![b] = 0]]
  ELSE MergeFrom(i + 1,
                 [cm EXCEPT ![a][cs[a]] = cm[b][i], ![b][i] = -1],
                 [cs EXCEPT ![a] = @ + 1],
                 a, b)

\* variant: the moved cells of the absorbed slot are not reset to -1
RECURSIVE MergeFromKeep(_, _, _, _, _)
MergeFromKeep(i, cm, cs, a, b) ==
  IF i >= cs[b] THEN [cm |-> cm, cs |-> [cs EXCEPT ![b] = 0]]
  ELSE MergeFromKeep(i + 1,
                     [cm EXCEPT ![a][cs[a]] = cm[b][i]],
                     [cs EXCEPT ![a] = @ + 1],
                     a, b)

MergeClustersNoClear(cm, cs, cp) == MergeFromKeep(0, cm, cs, cp[1], cp[2])

\* variant: the higher numbered slot absorbs the lower one
MergeClustersIntoHigher(cm, cs, cp) == MergeFrom(0, cm, cs, cp[2], cp[1])

MergeClusters(cm, cs, cp) == MergeFrom(0, cm, cs, cp[1], cp[2])

\* variant: the count is left as it was
NoDecrement(nc) == nc

Decrement(nc) == nc - 1

\* ---- return vector (lines 203-211) ----
SlotLabel(i) == i + 1

RECURSIVE WriteRow(_, _, _, _)
WriteRow(R, cm, i, j) ==
  IF j < n /\ 2 * cm[i][j] > -1
  THEN WriteRow([R EXCEPT ![cm[i][j]] = SlotLabel(i)], cm, i, j + 1)
  ELSE R

RECURSIVE WriteRows(_, _, _)
WriteRows(R, cm, i) ==
  IF i >= n THEN R ELSE WriteRows(WriteRow(R, cm, i, 0), cm, i + 1)

Unwritten == 0

\* ---- state machine ----
TypeInit(nn, up, lab, t) ==
  /\ n = nn
  /\ dist = FlatMatrix(nn, up)
  /\ mlg = lab
  /\ thresh = t
  /\ cluster_matrix = EmptyMatrix(nn)
  /\ cluster_size = EmptySizes(nn)
  /\ num_clusters = 0
  /\ min_cluster_distance = -1
  /\ tmp_max = -1
  /\ closest_pair = <<-1, -1>>
  /\ attributed = {}
  /\ Rout = [e \in 0 .. (nn - 1) |-> Unwritten]
  /\ pc = "fill"
  /\ num_merges = 0
  /\ stray = {}

Init ==
  \E nn \in 1 .. MaxN :
    \E up \in [UpperPairs(nn) -> 0 .. MaxDist],
       lab \in [0 .. (nn - 1) -> 1 .. nn],
       t \in 0 .. (MaxDist + 1) :
      TypeInit(nn, up, lab, t)

InitAnyLabels ==
  \E nn \in 1 .. MaxN :
    \E up \in [UpperPairs(nn) -> 0 .. MaxDist],
       lab \in [0 .. (nn - 1) -> (1 - LabelSlack) .. (nn + LabelSlack)],
       t \in 0 .. (MaxDist + 1) :
      TypeInit(nn, up, lab, t)

\* lines 116-136: with a label outside [1, n] the store through
\* cluster_matrix[cur_mlg-1] is out of bounds: the call may abort, or go on
\* with the individual in no slot and an arbitrary first-member test.
Fill ==
  /\ pc = "fill"
  /\ \E r \in {FillFrom(0, cluster_matrix, cluster_size, 0, {})} :
         /\ \/ /\ pc' = "while"
               /\ cluster_matrix' = r.cm
               /\ cluster_size' = r.cs
               /\ stray' = r.lost
               /\ \E extra \in 0 .. Cardinality(r.lost) :
                    num_clusters' = r.nc + extra
            \/ /\ r.lost # {}
               /\ pc' = "crashed"
               /\ UNCHANGED <<cluster_matrix, cluster_size, stray, num_clusters>>
  /\ min_cluster_distance' = -1
  /\ UNCHANGED <<n, dist, mlg, thresh, tmp_max, closest_pair, attributed,
                 Rout, num_merges>>

\* line 137 true, lines 142-182: one scan over all pairs of slots
Scan ==
  /\ pc = "while"
  /\ LoopGuard(min_cluster_distance, num_clusters)
  /\ \E r \in {ClosestPairScan(cluster_matrix)} :
         /\ min_cluster_distance' = r.min_cluster_distance
         /\ closest_pair' = r.closest_pair
         /\ tmp_max' = r.tmp_max
         /\ attributed' = r.attributed
  /\ pc' = "merge"
  /\ UNCHANGED <<n, dist, mlg, thresh, cluster_matrix, cluster_size,
                 num_clusters, Rout, num_merges, stray>>

\* lines 187-198; closest_pair still -1 makes cluster_size[-1] an
\* out-of-bounds access: abort, or no copy and the count decremented
MergeStep ==
  /\ pc = "merge"
  /\ IF WithinThreshold(min_cluster_distance)
     THEN IF closest_pair[2] = -1
          THEN \/ /\ pc' = "crashed"
                  /\ UNCHANGED <<cluster_matrix, cluster_size, num_clusters,
                                 num_merges>>
               \/ /\ pc' = "while"
                  /\ num_clusters' = Decrement(num_clusters)
                  /\ UNCHANGED <<cluster_matrix, cluster_size, num_merges>>
          ELSE \E r \in {MergeClusters(cluster_matrix, cluster_size, closest_pair)} :
                   /\ cluster_matrix' = r.cm
                   /\ cluster_size' = r.cs
                   /\ num_clusters' = Decrement(num_clusters)
                   /\ num_merges' = num_merges + 1
                   /\ pc' = "while"
     ELSE /\ pc' = "while"
          /\ UNCHANGED <<cluster_matrix, cluster_size, num_clusters, num_merges>>
  /\ UNCHANGED <<n, dist, mlg, thresh, min_cluster_distance, tmp_max,
                 closest_pair, attributed, Rout, stray>>

\* line 137 false
WhileExit ==
  /\ pc = "while"
  /\ ~LoopGuard(min_cluster_distance, num_clusters)
  /\ pc' = "output"
  /\ UNCHANGED <<n, dist, mlg, thresh, cluster_matrix, cluster_size,
                 num_clusters, min_cluster_distance, tmp_max, closest_pair,
                 attributed, Rout, num_merges, stray>>

\* lines 203-225; allocVector leaves Rout uninitialised, so a position no
\* row writes holds an arbitrary integer
Output ==
  /\ pc = "output"
  /\ \E R \in {WriteRows(Rout, cluster_matrix, 0)} :
         \E garbage \in [stray -> 0 .. (n + 1)] :
           Rout' = [e \in Individuals |->
                      IF e \in stray /\ R[e] = Unwritten THEN garbage[e] ELSE R[e]]
  /\ pc' = "done"
  /\ UNCHANGED <<n, dist, mlg, thresh, cluster_matrix, cluster_size,
                 num_clusters, min_cluster_distance, tmp_max, closest_pair,
                 attributed, num_merges, stray>>

Next == Fill \/ Scan \/ MergeStep \/ WhileExit \/ Output

Spec == Init /\ [][Next]_vars

SpecAnyLabels == InitAnyLabels /\ [][Next]_vars

TypeOK ==
  /\ n \in 1 .. MaxN
  /\ pc \in {"fill", "while", "merge", "output", "done", "crashed"}
  /\ \A s \in Slots : cluster_size[s] \in 0 .. n

\* ---- vocabulary of the properties ----
NonEmptySlots == {s \in Slots : cluster_size[s] > 0}

LivePairs == {p \in Slots \X Slots :
                p[1] < p[2] /\ p[1] \in NonEmptySlots /\ p[2] \in NonEmptySlots}

\* complete-linkage distance of two non-empty slots
CompleteLinkage(a, b) ==
  SetMax({distance_matrix(u, v) : u \in MembersOf(cluster_matrix, a),
                                  v \in MembersOf(cluster_matrix, b)})

TrueMinimum == SetMin({CompleteLinkage(p[1], p[2]) : p \in LivePairs})

MinimalPairs == {p \in LivePairs : CompleteLinkage(p[1], p[2]) = TrueMinimum}

FirstPair(S) ==
  CHOOSE p \in S : \A q \in S : p[1] < q[1] \/ (p[1] = q[1] /\ p[2] <= q[2])

Stopped == pc \in {"output", "done"}

Merging == pc = "merge" /\ pc' = "while" /\ num_merges' = num_merges + 1

AllBelowThreshold ==
  \A u \in Individuals : \A v \in Individuals :
    u # v => distance_matrix(u, v) < thresh

\* C1: when the loop has stopped, either one non-empty cluster remains or
\* no two non-empty clusters are at complete-linkage distance < threshold.
C1_StopsOnlyWhenNoPairQualifies ==
  Stopped =>
    \/ Cardinality(NonEmptySlots) = 1
    \/ \A p \in LivePairs : ~(CompleteLinkage(p[1], p[2]) < thresh)

\* C2: from the end of initialization to the end of the call every
\* individual is held by exactly one cell of one slot, within the counted
\* prefix of that slot, and the output gives it that slot's label.
C2_PartitionInvariant ==
  pc \in {"while", "merge", "output", "done"} =>
    /\ \A e \in Individuals :
         \E s \in Slots : \E k \in 0 .. (cluster_size[s] - 1) :
           /\ cluster_matrix[s][k] = e
           /\ \A s2 \in Slots : \A k2 \in 0 .. (cluster_size[s2] - 1) :
                cluster_matrix[s2][k2] = e => (s2 = s /\ k2 = k)
           /\ pc = "done" => Rout[e] = s + 1
    /\ \A s \in Slots : \A k \in 0 .. (n - 1) :
         k >= cluster_size[s] => cluster_matrix[s][k] = -1

C2_Witness ==
  /\ pc = "done"
  /\ num_merges >= 1
  /\ \E s \in Slots : cluster_size[s] >= 3

\* C3: the distance a scan attributes to a pair of non-empty slots is their
\* complete-linkage distance, and at the end of the scan the retained
\* minimum is the least complete-linkage distance over all pairs of
\* non-empty slots, attained by the retained pair.
C3_ScanIsCompleteLinkageMinimum ==
  /\ pc = "merge"
      => \A a \in attributed :
           <<a[1], a[2]>> \in LivePairs => a[3] = CompleteLinkage(a[1], a[2])
  /\ (pc = "merge" /\ LivePairs # {})
      => /\ min_cluster_distance = TrueMinimum
         /\ closest_pair \in MinimalPairs

\* C4: a merge joins two slots whose complete-linkage distance is strictly
\* below the threshold, and in the output two individuals with different
\* input labels and one output label are at distance < threshold.
C4_MergeOnlyBelowThreshold ==
  /\ [][Merging => CompleteLinkage(closest_pair[1], closest_pair[2]) < thresh]_vars
  /\ [](pc = "done" =>
          \A e \in Individuals : \A f \in Individuals :
            (Rout[e] = Rout[f] /\ mlg[e] # mlg[f])
              => distance_matrix(e, f) < thresh)

C4_Witness ==
  /\ pc = "done"
  /\ num_merges >= 1
  /\ \E e \in Individuals : \E f \in Individuals :
       Rout[e] = Rout[f] /\ mlg[e] # mlg[f]
  /\ \E p \in LivePairs : CompleteLinkage(p[1], p[2]) = thresh

\* C5: when several pairs of non-empty slots share the least
\* complete-linkage distance and it is below the threshold, the pair the
\* iteration merges is the first of them in ascending (i, j) order.
C5_TieBreakFirstPair ==
  (pc = "merge" /\ LivePairs # {} /\ TrueMinimum < thresh
     /\ Cardinality(MinimalPairs) >= 2)
    => /\ WithinThreshold(min_cluster_distance)
       /\ closest_pair = FirstPair(MinimalPairs)

\* C6: a merge moves the higher slot into the lower one, and each output
\* label is the least input label among the individuals carrying it, hence
\* an input label and at most the individual's own input label.
C6_LowerSlotAbsorbs ==
  /\ [][Merging =>
          /\ closest_pair[1] < closest_pair[2]
          /\ cluster_size'[closest_pair[2]] = 0
          /\ MembersOf(cluster_matrix', closest_pair[1]) =
               MembersOf(cluster_matrix, closest_pair[1])
                 \cup MembersOf(cluster_matrix, closest_pair[2])]_vars
  /\ [](pc = "done" =>
          \A e \in Individuals :
            /\ Rout[e] = SetMin({mlg[f] : f \in {g \in Individuals : Rout[g] = Rout[e]}})
            /\ Rout[e] <= mlg[e]
            /\ \E f \in Individuals : Rout[e] = mlg[f])

C6_Witness ==
  /\ pc = "done"
  /\ \E e \in Individuals : Rout[e] < mlg[e]
  /\ Cardinality(NonEmptySlots) >= 2

\* C7: when every distance between distinct individuals is below the
\* threshold, the call ends with one non-empty slot and one output label.
C7_AllBelowCollapses ==
  (pc = "done" /\ AllBelowThreshold) =>
    /\ Cardinality(NonEmptySlots) = 1
    /\ \A e \in Individuals : \A f \in Individuals : Rout[e] = Rout[f]

C7_Witness ==
  /\ pc = "done"
  /\ AllBelowThreshold
  /\ n >= 3
  /\ num_merges >= 2

\* C8: with a label outside [1, n] no individual is stored outside the n
\* slots, nothing is merged and no output labeling is produced.
C8_InvalidLabelRejected ==
  ~ValidLabels => (stray = {} /\ num_merges = 0 /\ pc # "done")

\* C9: the pair a scan retains never contains an empty slot, a merge joins
\* two distinct non-empty slots, and an empty slot stays empty once the
\* initial clustering is built.
C9_EmptySlotsInert ==
  /\ []((pc = "merge" /\ closest_pair # <<-1, -1>>)
          => closest_pair \in LivePairs)
  /\ []((pc = "merge" /\ WithinThreshold(min_cluster_distance))
          => closest_pair \in LivePairs)
  /\ [][pc # "fill" =>
          \A s \in Slots : cluster_size[s] = 0 => cluster_size'[s] = 0]_vars

\* an empty slot was visited after a non-empty one in a row whose running
\* maximum was set, after some slot had been emptied by a merge
C9_Witness ==
  /\ pc = "merge"
  /\ num_merges >= 1
  /\ \E a \in attributed :
       /\ a[1] \in NonEmptySlots
       /\ a[2] \notin NonEmptySlots
       /\ a[3] >= 0
       /\ \E j \in NonEmptySlots : a[1] < j /\ j < a[2]

\* C10: an iteration either merges once, taking one from num_clusters and
\* keeping it the number of non-empty slots, or changes nothing and makes
\* the loop guard false; the merges number at most the initial non-empty
\* slots minus one.
InitialClusters == Cardinality({mlg[i] : i \in Individuals})

C10_LoopTerminates ==
  /\ [][(pc = "merge" /\ pc' = "while") =>
          \/ /\ num_merges' = num_merges + 1
             /\ num_clusters' = num_clusters - 1
             /\ Cardinality(NonEmptySlots') = Cardinality(NonEmptySlots) - 1
             /\ num_clusters' = Cardinality(NonEmptySlots')
          \/ /\ UNCHANGED <<cluster_matrix, cluster_size, num_clusters, num_merges>>
             /\ ~LoopGuard(min_cluster_distance', num_clusters')]_vars
  /\ [](pc # "fill" =>
          /\ num_clusters = Cardinality(NonEmptySlots)
          /\ num_clusters = InitialClusters - num_merges
          /\ num_merges <= InitialClusters - 1)
  /\ [][pc = "merge" => pc' = "while"]_vars

C10_Witness ==
  /\ pc = "done"
  /\ InitialClusters >= 3
  /\ num_merges = InitialClusters - 1

====
